---------------------------- MODULE Spec2Model ----------------------------
(***************************************************************************)
(* report-new-linter-errors: the line-number reconciliation engine of      *)
(* src/report_new_linter_errors.py and the driver around it.               *)
(*                                                                         *)
(* Text is modelled as TLA+ strings, one string per line, with the line's  *)
(* trailing "\n" kept as the source's readlines()/splitlines(keepends=True)*)
(* keep it.  Paths are pathlib.PurePath values on a POSIX host             *)
(* (PurePosixPath), modelled by their str().                               *)
(***************************************************************************)
EXTENDS Integers, Sequences, FiniteSets, TLC

VARIABLES
    iter_snapshot_lines,  \* argument of adjust_line_numbers: snapshot text lines
    iter_diff_lines,      \* argument of adjust_line_numbers: diff text lines
    pc,                   \* position inside adjust_line_numbers / the parser
    snapshot_entries,     \* CollectedSnapshotEntries: [lines, index]
    adjustment_table,     \* AdjustmentTable._contents: path -> list of offsets
    hunks,                \* the GitDiffHunks parse_git_diff_hunks has yielded
    raised,               \* "" or the exception that ended the call
    result,               \* the list adjust_line_numbers returned
    main_pc,              \* position inside main ("unit": called directly)
    snapshot_file,        \* content of <root>/snapshot, or NoFile
    commit_file,          \* content of <root>/commit, or NoFile
    new_snapshot_file,    \* content of <root>/new-snapshot, or NoFile
    head,                 \* the repository's HEAD revision
    before,               \* [snapshot, commit] when adjust_line_numbers_in_snapshot was entered
    exit_status,          \* what main ended with
    processes,            \* the external processes started and exited, in order
    snapshot_commit,      \* the revision the snapshot's line numbers are of
    linter_pc,            \* the linter process: "not started", "running", "exited"
    linter_writes,        \* the pipes the linter has still to write a block to, in order
    stdout_pipe,          \* blocks in the pipe of the linter's stdout
    stderr_pipe           \* blocks in the pipe of the linter's stderr

vars == <<iter_snapshot_lines, iter_diff_lines, pc, snapshot_entries,
          adjustment_table, hunks, raised, result, main_pc, snapshot_file,
          commit_file, new_snapshot_file, head, before, exit_status, processes,
          snapshot_commit, linter_pc, linter_writes, stdout_pipe, stderr_pipe>>

linter_vars == <<linter_pc, linter_writes, stdout_pipe, stderr_pipe>>

engine_vars == <<pc, snapshot_entries, adjustment_table, hunks, raised, result>>

files_vars_but_pc ==
    <<snapshot_file, commit_file, new_snapshot_file, head, before, exit_status,
      processes, snapshot_commit, linter_vars>>

files_vars == <<main_pc, snapshot_file, commit_file, new_snapshot_file, head,
                before, exit_status, processes, snapshot_commit, linter_vars>>

-----------------------------------------------------------------------------
(* Bounds of the model.                                                    *)

\* lines the version-control diff may have
MaxDiffLines == 6
\* highest line number a snapshot entry of the inputs is anchored at
MaxLine == 3
\* characters a generated snapshot line may have
MaxSnapshotLineLen == 12
\* lines an arbitrary (possibly malformed) diff may have
MaxParserLines == 5

-----------------------------------------------------------------------------
(* Python's str / int / list primitives the program uses.                  *)

Char(s, i) == SubSeq(s, i, i)

\* str.startswith
StartsWith(s, prefix) ==
    Len(s) >= Len(prefix) /\ SubSeq(s, 1, Len(prefix)) = prefix

\* s[n:]
DropFirst(s, n) == SubSeq(s, n + 1, Len(s))

Digits == {"0", "1", "2", "3", "4", "5", "6", "7", "8", "9"}

DigitValue(c) ==
    CASE c = "0" -> 0 [] c = "1" -> 1 [] c = "2" -> 2 [] c = "3" -> 3
      [] c = "4" -> 4 [] c = "5" -> 5 [] c = "6" -> 6 [] c = "7" -> 7
      [] c = "8" -> 8 [] c = "9" -> 9

IsDigits(s) == Len(s) > 0 /\ \A i \in 1..Len(s) : Char(s, i) \in Digits

\* the value of a run of decimal digits (leading zeros carry no value)
RECURSIVE DigitsValue(_)
DigitsValue(s) ==
    IF Len(s) = 0 THEN 0
    ELSE 10 * DigitsValue(SubSeq(s, 1, Len(s) - 1)) + DigitValue(Char(s, Len(s)))

\* str.rstrip("\n")
RECURSIVE RStripNewline(_)
RStripNewline(s) ==
    IF Len(s) > 0 /\ Char(s, Len(s)) = "\n"
    THEN RStripNewline(SubSeq(s, 1, Len(s) - 1))
    ELSE s

\* str.strip() for the blanks a diff header can hold
RECURSIVE StripBlanks(_)
StripBlanks(s) ==
    IF Len(s) > 0 /\ Char(s, 1) \in {" ", "\n", "\t"} THEN StripBlanks(DropFirst(s, 1))
    ELSE IF Len(s) > 0 /\ Char(s, Len(s)) \in {" ", "\n", "\t"}
    THEN StripBlanks(SubSeq(s, 1, Len(s) - 1))
    ELSE s

\* int(s): [ok, value]; not ok is ValueError
PyInt(s) ==
    LET t == StripBlanks(s)
        signed == Len(t) > 0 /\ Char(t, 1) \in {"+", "-"}
        body == IF signed THEN DropFirst(t, 1) ELSE t
    IN  IF IsDigits(body)
        THEN [ok |-> TRUE,
              value |-> IF signed /\ Char(t, 1) = "-" THEN 0 - DigitsValue(body)
                        ELSE DigitsValue(body)]
        ELSE [ok |-> FALSE, value |-> 0]

\* s.split(",", 1)[0]
RECURSIVE BeforeFirstComma(_)
BeforeFirstComma(s) ==
    IF Len(s) = 0 \/ Char(s, 1) = "," THEN ""
    ELSE Char(s, 1) \o BeforeFirstComma(DropFirst(s, 1))

\* "\n".join(lines)
RECURSIVE JoinLines(_)
JoinLines(lines) ==
    IF Len(lines) = 0 THEN ""
    ELSE IF Len(lines) = 1 THEN lines[1]
    ELSE lines[1] \o "\n" \o JoinLines(Tail(lines))

\* f.readlines() / str.splitlines(keepends=True): cut after every "\n"
RECURSIVE ReadLinesFrom(_, _)
ReadLinesFrom(content, current) ==
    IF Len(content) = 0
    THEN IF current = "" THEN <<>> ELSE <<current>>
    ELSE IF Char(content, 1) = "\n"
    THEN <<current \o "\n">> \o ReadLinesFrom(DropFirst(content, 1), "")
    ELSE ReadLinesFrom(DropFirst(content, 1), current \o Char(content, 1))

ReadLines(content) == ReadLinesFrom(content, "")

-----------------------------------------------------------------------------
(* pathlib.PurePath(s) on POSIX, as its str(): empty and "." components    *)
(* are dropped, repeated and trailing slashes collapse, exactly two        *)
(* leading slashes are kept, and the empty path is ".".                    *)

\* the components of s between slashes
RECURSIVE SplitSlash(_, _)
SplitSlash(s, current) ==
    IF Len(s) = 0 THEN <<current>>
    ELSE IF Char(s, 1) = "/" THEN <<current>> \o SplitSlash(DropFirst(s, 1), "")
    ELSE SplitSlash(DropFirst(s, 1), current \o Char(s, 1))

RECURSIVE JoinSlash(_)
JoinSlash(parts) ==
    IF Len(parts) = 0 THEN ""
    ELSE IF Len(parts) = 1 THEN parts[1]
    ELSE parts[1] \o "/" \o JoinSlash(Tail(parts))

KeptParts(parts) == SelectSeq(parts, LAMBDA c : c # "" /\ c # ".")

PurePath(s) ==
    LET root == IF StartsWith(s, "//") /\ ~StartsWith(s, "///") THEN "//"
                ELSE IF StartsWith(s, "/") THEN "/"
                ELSE ""
        body == JoinSlash(KeptParts(SplitSlash(s, "")))
    IN  IF root = "" /\ body = "" THEN "." ELSE root \o body

-----------------------------------------------------------------------------
(* SnapshotLine = Union[str, SnapshotEntry]; None marks a deleted slot.    *)

None == [kind |-> "None", text |-> "", path |-> "", line_number |-> 0,
         other_contents |-> ""]

StrLine(text) == [kind |-> "str", text |-> text, path |-> "", line_number |-> 0,
                  other_contents |-> ""]

SnapshotEntry(path, line_number, other_contents) ==
    [kind |-> "entry", text |-> "", path |-> path, line_number |-> line_number,
     other_contents |-> other_contents]

\* str(int)
IntToStr(n) == ToString(n)

format_snapshot_line(snapshot_line) ==
    IF snapshot_line.kind = "str" THEN snapshot_line.text
    ELSE snapshot_line.path \o ":" \o IntToStr(snapshot_line.line_number)
             \o snapshot_line.other_contents

\* re_snapshot_line = ^(.+):(\d+)(.*) : the lengths group 1 can have
re_snapshot_line_candidates(s) ==
    {j \in 1..(Len(s) - 2) : Char(s, j + 1) = ":" /\ Char(s, j + 2) \in Digits}

Max(S) == CHOOSE x \in S : \A y \in S : y <= x

\* the last position of the digit run that starts at position k
RECURSIVE DigitRunEnd(_, _)
DigitRunEnd(s, k) ==
    IF k < Len(s) /\ Char(s, k + 1) \in Digits THEN DigitRunEnd(s, k + 1) ELSE k

\* re_snapshot_line.match(s): <<>> (no match) or <<path, digits, rest>>;
\* the greedy (.+) takes the longest group 1, the greedy (\d+) the whole run
re_snapshot_line(s) ==
    LET cands == re_snapshot_line_candidates(s)
    IN  IF cands = {} THEN <<>>
        ELSE LET j == Max(cands)
                 e == DigitRunEnd(s, j + 2)
             IN  <<SubSeq(s, 1, j), SubSeq(s, j + 2, e), SubSeq(s, e + 1, Len(s))>>

parse_snapshot_line(line) ==
    LET m == re_snapshot_line(RStripNewline(line))
    IN  IF m = <<>> THEN StrLine(RStripNewline(line))
        ELSE SnapshotEntry(PurePath(m[1]), DigitsValue(m[2]), m[3])

parse_snapshot_lines(lines) ==
    [i \in 1..Len(lines) |-> parse_snapshot_line(lines[i])]

-----------------------------------------------------------------------------
(* CollectedSnapshotEntries: lines is _snapshot_lines, index is _index as  *)
(* a function from <<path, line_number>> to the slot.                      *)

Put(f, k, v) == [x \in (DOMAIN f) \cup {k} |-> IF x = k THEN v ELSE f[x]]

Remove(f, k) == [x \in (DOMAIN f) \ {k} |-> f[x]]

EmptyMap == [x \in {} |-> 0]

RECURSIVE IndexLines(_, _, _)
IndexLines(lines, i, index) ==
    IF i > Len(lines) THEN index
    ELSE IF lines[i].kind = "entry"
    THEN IndexLines(lines, i + 1,
                    Put(index, <<lines[i].path, lines[i].line_number>>, i))
    ELSE IndexLines(lines, i + 1, index)

CollectedSnapshotEntries(lines) ==
    LET parsed == parse_snapshot_lines(lines)
    IN  [lines |-> parsed, index |-> IndexLines(parsed, 1, EmptyMap)]

to_formatted_snapshot_lines_entries_only(entries) ==
    LET kept == SelectSeq(entries.lines, LAMBDA sl : sl.kind = "entry")
    IN  [i \in 1..Len(kept) |-> format_snapshot_line(kept[i])]

to_formatted_snapshot_lines(entries) ==
    LET kept == SelectSeq(entries.lines, LAMBDA sl : sl # None)
    IN  [i \in 1..Len(kept) |-> format_snapshot_line(kept[i])]

get_entry(entries, path_minus, line_number) ==
    LET key == <<path_minus, line_number>>
    IN  IF key \notin DOMAIN entries.index THEN None
        ELSE IF entries.lines[entries.index[key]].kind = "entry"
        THEN entries.lines[entries.index[key]]
        ELSE None

delete_entry(entries, path_minus, line_number) ==
    LET key == <<path_minus, line_number>>
    IN  IF key \notin DOMAIN entries.index THEN entries
        ELSE [lines |-> [entries.lines EXCEPT ![entries.index[key]] = None],
              index |-> Remove(entries.index, key)]

-----------------------------------------------------------------------------
(* AdjustmentTable: contents is _contents, each list indexed by            *)
(* line number - 1.                                                        *)

Zeros(n) == [i \in 1..n |-> 0]

\* [ok, contents]; not ok is the IndexError of a list index out of range
add_offset_of(contents, path, line_number, offset) ==
    LET line_index == line_number - 1
        old == IF path \in DOMAIN contents THEN contents[path] ELSE <<>>
        grown == IF Len(old) <= line_index
                 THEN old \o Zeros(line_index + 1 - Len(old))
                 ELSE old
        \* a negative index counts from the end of the list
        at == IF line_index >= 0 THEN line_index + 1
              ELSE Len(grown) + line_index + 1
    IN  IF at < 1
        THEN [ok |-> FALSE, contents |-> Put(contents, path, grown)]
        ELSE [ok |-> TRUE,
              contents |-> Put(contents, path,
                               [grown EXCEPT ![at] = grown[at] + offset])]

\* a variant that keeps the per-line offsets as they are
not_accumulated(offsets) == offsets

\* itertools.accumulate
RECURSIVE accumulate(_)
accumulate(offsets) ==
    IF Len(offsets) = 0 THEN <<>>
    ELSE LET init == accumulate(SubSeq(offsets, 1, Len(offsets) - 1))
         IN  IF Len(init) = 0 THEN <<offsets[1]>>
             ELSE Append(init, init[Len(init)] + offsets[Len(offsets)])

\* AccumulatedOffsets.__getitem__: [ok, value]
AccumulatedOffsets_getitem(offsets, line_number) ==
    LET line_index == line_number - 1
    IN  IF line_index < 0 THEN [ok |-> TRUE, value |-> 0]
        ELSE IF line_index >= Len(offsets)
        THEN IF Len(offsets) = 0 THEN [ok |-> FALSE, value |-> 0]
             ELSE [ok |-> TRUE, value |-> offsets[Len(offsets)]]
        ELSE [ok |-> TRUE, value |-> offsets[line_index + 1]]

lines_and_total_offsets(contents) ==
    [p \in DOMAIN contents |-> accumulate(contents[p])]

\* the keys of the index whose file has a table
AdjustedKeys(entries, contents) ==
    {k \in DOMAIN entries.index :
        k[1] \in DOMAIN contents /\ entries.lines[entries.index[k]].kind = "entry"}

\* [ok, entries]
adjust_entry_line_numbers(entries, contents) ==
    LET totals == lines_and_total_offsets(contents)
        keys == AdjustedKeys(entries, contents)
        KeyOf(i) == CHOOSE k \in keys : entries.index[k] = i
        slots == {entries.index[k] : k \in keys}
    IN  IF \E k \in keys : ~AccumulatedOffsets_getitem(totals[k[1]], k[2]).ok
        THEN [ok |-> FALSE, entries |-> entries]
        ELSE [ok |-> TRUE,
              entries |->
                [entries EXCEPT !.lines =
                    [i \in 1..Len(entries.lines) |->
                        IF i \in slots
                        THEN SnapshotEntry(
                                 entries.lines[i].path,
                                 entries.lines[i].line_number
                                   + AccumulatedOffsets_getitem(
                                         totals[KeyOf(i)[1]], KeyOf(i)[2]).value,
                                 entries.lines[i].other_contents)
                        ELSE entries.lines[i]]]]

-----------------------------------------------------------------------------
(* The diff hunk parser.  An Optional value is <<>> (None) or <<v>>.       *)

ContextLine == [line_type |-> " ", content |-> ""]

DiffLine(line_type, content) == [line_type |-> line_type, content |-> content]

GitDiffHunk(path_minus, path_plus, initial_line_number, diffs) ==
    [path_minus |-> path_minus, path_plus |-> path_plus,
     initial_line_number |-> initial_line_number, diffs |-> diffs]

\* re.compile(r"^[ab]/").sub("", path)
drop_git_diff_prefix(path) ==
    IF StartsWith(path, "a/") \/ StartsWith(path, "b/") THEN DropFirst(path, 2)
    ELSE path

\* sign is "---" or "+++"; line[len(sign) + 1:]
parse_git_diff_file_path(sign, line) ==
    PurePath(drop_git_diff_prefix(DropFirst(line, Len(sign) + 1)))

\* int(line[len("@@ -"):].split(",", 1)[0]): [ok, value]
parse_diff_current_initial_line_number(line) ==
    PyInt(BeforeFirstComma(DropFirst(line, 4)))

ParserStart ==
    [current_path_minus |-> <<>>, current_path_plus |-> <<>>,
     current_initial_line_number |-> <<>>, current_diffs |-> <<>>,
     is_empty |-> TRUE]

MissingMinus == "ValueError: Malformed diff hunk: missing --- line"
MissingPlus == "ValueError: Malformed diff hunk: missing +++ line"
MissingAt == "ValueError: Malformed diff hunk: missing @@ line"
BadInt == "ValueError: invalid literal for int()"
IndexError == "IndexError: list index out of range"

\* the three checks before a yield: "" or the error raised
PendingError(st, check_minus) ==
    IF check_minus /\ st.current_path_minus = <<>> THEN MissingMinus
    ELSE IF st.current_path_plus = <<>> THEN MissingPlus
    ELSE IF st.current_initial_line_number = <<>> THEN MissingAt
    ELSE ""

PendingHunk(st) ==
    GitDiffHunk(st.current_path_minus[1], st.current_path_plus[1],
                st.current_initial_line_number[1], st.current_diffs)

Step(st, yielded, error) == [st |-> st, yielded |-> yielded, error |-> error]

\* one turn of the loop "for line in iter_diff_lines": the parser's state after
\* the line, the hunk it yields (if any) and then the error it raises (if any)
parse_diff_line(st0, line) ==
    LET st == [st0 EXCEPT !.is_empty = FALSE]
        l == RStripNewline(line)
    IN  IF StartsWith(l, "--- ")
        THEN IF st.current_path_minus = <<>>
             THEN Step([st EXCEPT !.current_path_minus =
                            <<parse_git_diff_file_path("---", l)>>], <<>>, "")
             ELSE IF PendingError(st, FALSE) # ""
             THEN Step(st, <<>>, PendingError(st, FALSE))
             ELSE Step([st EXCEPT !.current_diffs = <<>>,
                                  !.current_path_minus =
                                      <<parse_git_diff_file_path("---", l)>>],
                       <<PendingHunk(st)>>, "")
        ELSE IF StartsWith(l, "+++ ")
        THEN Step([st EXCEPT !.current_path_plus =
                       <<parse_git_diff_file_path("+++", l)>>], <<>>, "")
        ELSE IF StartsWith(l, "@@ ")
        THEN LET n == parse_diff_current_initial_line_number(l)
                 flush == st.current_diffs # <<>>
                 after == IF flush THEN [st EXCEPT !.current_diffs = <<>>] ELSE st
             IN  IF flush /\ PendingError(st, TRUE) # ""
                 THEN Step(st, <<>>, PendingError(st, TRUE))
                 ELSE IF ~n.ok
                 THEN Step(after, IF flush THEN <<PendingHunk(st)>> ELSE <<>>, BadInt)
                 ELSE Step([after EXCEPT !.current_initial_line_number = <<n.value>>],
                           IF flush THEN <<PendingHunk(st)>> ELSE <<>>, "")
        ELSE IF StartsWith(l, " ")
        THEN Step([st EXCEPT !.current_diffs = Append(@, ContextLine)], <<>>, "")
        ELSE IF StartsWith(l, "+")
        THEN Step([st EXCEPT !.current_diffs = Append(@, DiffLine("+", DropFirst(l, 1)))],
                  <<>>, "")
        ELSE IF StartsWith(l, "-")
        THEN Step([st EXCEPT !.current_diffs = Append(@, DiffLine("-", DropFirst(l, 1)))],
                  <<>>, "")
        ELSE Step(st, <<>>, "")

\* after the loop: nothing for empty input, else the last hunk or an error
parse_diff_end(st) ==
    IF st.is_empty THEN Step(st, <<>>, "")
    ELSE IF PendingError(st, TRUE) # "" THEN Step(st, <<>>, PendingError(st, TRUE))
    ELSE Step(st, <<PendingHunk(st)>>, "")

\* list(parse_git_diff_hunks(lines)): [hunks, error], the hunks yielded before
\* the error (if any) was raised
RECURSIVE parse_from(_, _, _, _)
parse_from(lines, i, st, yielded) ==
    IF i > Len(lines)
    THEN LET e == parse_diff_end(st)
         IN  [hunks |-> yielded \o e.yielded, error |-> e.error]
    ELSE LET s == parse_diff_line(st, lines[i])
         IN  IF s.error # ""
             THEN [hunks |-> yielded \o s.yielded, error |-> s.error]
             ELSE parse_from(lines, i + 1, s.st, yielded \o s.yielded)

parse_git_diff_hunks(lines) == parse_from(lines, 1, ParserStart, <<>>)

-----------------------------------------------------------------------------
(* adjust_line_numbers: the walk over one hunk's payload, and the loop     *)
(* over the hunks the (lazy) parser yields.                                *)

\* a variant of the walk below in which an added line advances the cursor
\* too: original_line_number_offset is never decremented
RECURSIVE walk_hunk_from_advancing(_, _, _, _, _)
walk_hunk_from_advancing(diff_hunk, i, original_line_number_offset, entries, contents) ==
    IF i >= Len(diff_hunk.diffs)
    THEN [ok |-> TRUE, entries |-> entries, contents |-> contents]
    ELSE LET diff_line == diff_hunk.diffs[i + 1]
             original_line_number == original_line_number_offset + i
             snapshot_line == get_entry(entries, diff_hunk.path_minus,
                                        original_line_number)
             offset == CASE diff_line.line_type = " " -> 0
                         [] diff_line.line_type = "-" -> 0 - 1
                         [] diff_line.line_type = "+" -> 1
             entries1 == IF snapshot_line # None /\ diff_line.line_type = "-"
                         THEN delete_entry(entries, diff_hunk.path_minus,
                                           original_line_number)
                         ELSE entries
             added == add_offset_of(contents, diff_hunk.path_minus,
                                    original_line_number, offset)
         IN  IF ~added.ok
             THEN [ok |-> FALSE, entries |-> entries1, contents |-> added.contents]
             ELSE walk_hunk_from_advancing(diff_hunk, i + 1,
                                           original_line_number_offset, entries1,
                                           added.contents)

\* the body of "for i, diff_line in enumerate(diff_hunk.diffs)" from index i
\* (0-based) on: [ok, entries, contents]
RECURSIVE walk_hunk_from(_, _, _, _, _)
walk_hunk_from(diff_hunk, i, original_line_number_offset, entries, contents) ==
    IF i >= Len(diff_hunk.diffs)
    THEN [ok |-> TRUE, entries |-> entries, contents |-> contents]
    ELSE LET diff_line == diff_hunk.diffs[i + 1]
             original_line_number == original_line_number_offset + i
             snapshot_line == get_entry(entries, diff_hunk.path_minus,
                                        original_line_number)
             offset == CASE diff_line.line_type = " " -> 0
                         [] diff_line.line_type = "-" -> 0 - 1
                         [] diff_line.line_type = "+" -> 1
             entries1 == IF snapshot_line # None /\ diff_line.line_type = "-"
                         THEN delete_entry(entries, diff_hunk.path_minus,
                                           original_line_number)
                         ELSE entries
             added == add_offset_of(contents, diff_hunk.path_minus,
                                    original_line_number, offset)
             next_offset == IF diff_line.line_type = "+"
                            THEN original_line_number_offset - 1
                            ELSE original_line_number_offset
         IN  IF ~added.ok
             THEN [ok |-> FALSE, entries |-> entries1, contents |-> added.contents]
             ELSE walk_hunk_from(diff_hunk, i + 1, next_offset, entries1,
                                 added.contents)

walk_hunk(diff_hunk, entries, contents) ==
    walk_hunk_from(diff_hunk, 0, diff_hunk.initial_line_number, entries, contents)

Walked(entries, contents, yielded, error) ==
    [entries |-> entries, contents |-> contents, hunks |-> yielded, error |-> error]

\* what the walk of the hunks a parser step yielded leaves
WalkYielded(step, entries, contents) ==
    IF step.yielded = <<>>
    THEN [ok |-> TRUE, entries |-> entries, contents |-> contents]
    ELSE walk_hunk(step.yielded[1], entries, contents)

\* "for diff_hunk in iter_diff_hunk": the parser runs one line at a time and
\* each hunk is walked as soon as it is yielded
RECURSIVE walk_hunks_from(_, _, _, _, _, _)
walk_hunks_from(lines, i, st, entries, contents, yielded) ==
    LET step == IF i > Len(lines) THEN parse_diff_end(st)
                ELSE parse_diff_line(st, lines[i])
        w == WalkYielded(step, entries, contents)
    IN  IF ~w.ok
        THEN Walked(w.entries, w.contents, yielded \o step.yielded, IndexError)
        ELSE IF step.error # "" \/ i > Len(lines)
        THEN Walked(w.entries, w.contents, yielded \o step.yielded, step.error)
        ELSE walk_hunks_from(lines, i + 1, step.st, w.entries, w.contents,
                             yielded \o step.yielded)

walk_hunks(lines, entries) ==
    walk_hunks_from(lines, 1, ParserStart, entries, EmptyMap, <<>>)

\* adjust_line_numbers as a function of its two arguments: [error, result]
adjust_line_numbers(diff_lines, snapshot_lines) ==
    LET w == walk_hunks(diff_lines, CollectedSnapshotEntries(snapshot_lines))
        a == adjust_entry_line_numbers(w.entries, w.contents)
    IN  IF w.error # "" THEN [error |-> w.error, result |-> <<>>]
        ELSE IF ~a.ok THEN [error |-> IndexError, result |-> <<>>]
        ELSE [error |-> "", result |-> to_formatted_snapshot_lines(a.entries)]

-----------------------------------------------------------------------------
(* The inputs.  A snapshot is what a linter printed: located diagnostics   *)
(* of p.py and q.py and a summary line.  A diff is what "git diff          *)
(* --unified" prints: per file a "--- " and a "+++ " line, then hunks, each *)
(* a "@@ " header and body lines.  The header's counts are not read by the *)
(* program; only its old start and whether the old count is printed (git  *)
(* omits a count of 1) matter.                                             *)

EntryLine(path, line_number, suffix) ==
    path \o ":" \o IntToStr(line_number) \o suffix \o "\n"

Summary == "Found 1 error\n"

SnapshotInputs ==
    \* one diagnostic and the summary
    {<<EntryLine("p.py", L, ": e"), Summary>> : L \in 1..MaxLine}
    \* two diagnostics of one file
    \cup {<<EntryLine("p.py", L[1], ": e"), EntryLine("p.py", L[2], ": f")>> :
            L \in {x \in (1..MaxLine) \X (1..MaxLine) : x[1] < x[2]}}
    \* two diagnostics on the same line
    \cup {<<EntryLine("p.py", L, ": e"), EntryLine("p.py", L, ": f"), Summary>> :
            L \in 1..MaxLine}
    \* diagnostics of two files around a summary
    \cup {<<EntryLine("q.py", L, ": e"), Summary, EntryLine("p.py", L, ": e")>> :
            L \in 1..MaxLine}

OldFileLines == {"--- a/p.py\n", "--- /dev/null\n"}

NewFileLine(old) == IF old = "--- a/p.py\n" THEN "+++ b/p.py\n" ELSE "+++ b/n.py\n"

\* old start 1; old start 1 of a one-line file; old start 3
OneLineFileHeader == "@@ -1 +1,2 @@\n"

HunkHeaders == {"@@ -1,3 +1,4 @@\n", OneLineFileHeader, "@@ -3,2 +3,3 @@\n"}

LaterHunkHeader == "@@ -3,2 +3,3 @@\n"

\* the only hunk of a file the diff creates
NewFileHunkHeader == "@@ -0,0 +1,2 @@\n"

\* context, added "a", removed "r", removed "-- r" (a comment line of SQL,
\* Lua or Haskell, or a line of a docstring)
BodyLines == {" c\n", "+a\n", "-r\n", "--- r\n"}

\* the last line of the diff among the given ones, or "" if there is none
LastAmong(diff, S) ==
    LET at == {i \in 1..Len(diff) : diff[i] \in S}
    IN  IF at = {} THEN "" ELSE diff[Max(at)]

\* the lines "git diff" can print after the lines it has printed
GitDiffNextLines(diff) ==
    LET last == IF Len(diff) = 0 THEN "" ELSE diff[Len(diff)]
        in_new_file == LastAmong(diff, {"+++ b/p.py\n", "+++ b/n.py\n"}) = "+++ b/n.py\n"
        \* a "--- r" body line never directly follows a "+++ " line, so an
        \* old-file line is the one before its "+++ " line
        headers_seen == {i \in 1..Len(diff) : diff[i] \in HunkHeaders}
        header_after_file ==
            LET files == {i \in 1..Len(diff) : diff[i] \in {"+++ b/p.py\n", "+++ b/n.py\n"}}
            IN  {i \in headers_seen : i > Max(files)}
        \* the hunk of a one-line file already holds that line
        one_line_file ==
            /\ LastAmong(diff, HunkHeaders) = OneLineFileHeader
            /\ \E i \in 1..Len(diff) :
                   /\ diff[i] \in BodyLines \ {"+a\n"}
                   /\ \A j \in i..Len(diff) : diff[j] \notin HunkHeaders \cup OldFileLines
    IN  IF Len(diff) = 0 THEN OldFileLines
        ELSE IF last \in OldFileLines THEN {NewFileLine(last)}
        ELSE IF last = "+++ b/p.py\n" THEN HunkHeaders
        ELSE IF last = "+++ b/n.py\n" THEN {NewFileHunkHeader}
        ELSE IF last \in HunkHeaders \cup {NewFileHunkHeader}
        THEN IF in_new_file THEN {"+a\n"} ELSE BodyLines
        ELSE \* after a body line
             IF in_new_file THEN {"+a\n"} \cup OldFileLines
             ELSE IF one_line_file
             THEN \* the file's one old line is in the hunk: only added lines follow
                  {"+a\n"} \cup OldFileLines
             ELSE BodyLines \cup OldFileLines
                  \cup (IF \A i \in header_after_file : diff[i] # LaterHunkHeader
                        THEN {LaterHunkHeader} ELSE {})

\* the diff command has printed all of its output: every file section has
\* its hunks and every hunk its body
CompleteDiff(diff) ==
    IF Len(diff) = 0 THEN TRUE ELSE diff[Len(diff)] \in BodyLines

NoEntries == [lines |-> <<>>, index |-> EmptyMap]

NoFile == <<>>

\* no linter process, no pipes
LinterIdle ==
    /\ linter_pc = "not started"
    /\ linter_writes = <<>>
    /\ stdout_pipe = 0
    /\ stderr_pipe = 0

\* main is not running: adjust_line_numbers is called directly, as the tests do
FilesIdle ==
    /\ snapshot_file = NoFile
    /\ commit_file = NoFile
    /\ new_snapshot_file = NoFile
    /\ head = ""
    /\ before = <<>>
    /\ exit_status = <<>>
    /\ processes = <<>>
    /\ snapshot_commit = ""
    /\ LinterIdle

EngineStart ==
    /\ pc = "input"
    /\ snapshot_entries = NoEntries
    /\ adjustment_table = EmptyMap
    /\ hunks = <<>>
    /\ raised = ""
    /\ result = <<>>

Init ==
    /\ iter_snapshot_lines \in SnapshotInputs
    /\ iter_diff_lines = <<>>
    /\ EngineStart
    /\ main_pc = "unit"
    /\ FilesIdle

-----------------------------------------------------------------------------
(* The steps of adjust_line_numbers.                                       *)

\* the version-control diff prints its next line: to the caller of
\* adjust_line_numbers, or to main's check_output when HEAD has moved
GitDiffEmit ==
    /\ <<main_pc, pc>> \in {<<"unit", "input">>, <<"git diff", "idle">>}
    /\ commit_file # <<head>>
    /\ Len(iter_diff_lines) < MaxDiffLines
    /\ \E l \in GitDiffNextLines(iter_diff_lines) :
           iter_diff_lines' = Append(iter_diff_lines, l)
    /\ UNCHANGED <<iter_snapshot_lines, engine_vars, files_vars>>

\* adjustment_table = AdjustmentTable();
\* snapshot_entries = CollectedSnapshotEntries(iter_snapshot_lines)
Collect ==
    /\ pc = "input"
    /\ pc' = "collected"
    /\ adjustment_table' = EmptyMap
    /\ snapshot_entries' = CollectedSnapshotEntries(iter_snapshot_lines)
    /\ UNCHANGED <<iter_snapshot_lines, iter_diff_lines, hunks, raised, result,
                   files_vars>>

\* for diff_hunk in parse_git_diff_hunks(iter_diff_lines): ...
WalkHunks ==
    /\ pc = "collected"
    /\ LET w == walk_hunks(iter_diff_lines, snapshot_entries)
       IN  /\ snapshot_entries' = w.entries
           /\ adjustment_table' = w.contents
           /\ hunks' = w.hunks
           /\ raised' = w.error
           /\ pc' = IF w.error = "" THEN "walked" ELSE "raised"
    /\ UNCHANGED <<iter_snapshot_lines, iter_diff_lines, result, files_vars>>

\* snapshot_entries.adjust_entry_line_numbers(adjustment_table)
AdjustEntries ==
    /\ pc = "walked"
    /\ LET a == adjust_entry_line_numbers(snapshot_entries, adjustment_table)
       IN  /\ snapshot_entries' = a.entries
           /\ raised' = IF a.ok THEN "" ELSE IndexError
           /\ pc' = IF a.ok THEN "adjusted" ELSE "raised"
    /\ UNCHANGED <<iter_snapshot_lines, iter_diff_lines, adjustment_table, hunks,
                   result, files_vars>>

\* return snapshot_entries.to_formatted_snapshot_lines()
Return ==
    /\ pc = "adjusted"
    /\ result' = to_formatted_snapshot_lines(snapshot_entries)
    /\ pc' = "returned"
    /\ UNCHANGED <<iter_snapshot_lines, iter_diff_lines, snapshot_entries,
                   adjustment_table, hunks, raised, files_vars>>

Next == GitDiffEmit \/ Collect \/ WalkHunks \/ AdjustEntries \/ Return

Spec == Init /\ [][Next]_vars

-----------------------------------------------------------------------------
(* One snapshot line as a linter prints it, reconciled against an empty    *)
(* diff: a path in one of its spellings, then colons, digit runs and text. *)

PathSpellings == {"p.py", "./p.py"}

LineNumberSpellings == {"5", "07"}

LinterTokens == {":", " e"} \cup LineNumberSpellings

InitLine ==
    /\ iter_snapshot_lines \in {<<P \o "\n">> : P \in PathSpellings}
    /\ iter_diff_lines = <<>>
    /\ EngineStart
    /\ main_pc = "linter"
    /\ FilesIdle

\* the linter prints more of the line
LinterEmit ==
    /\ pc = "input"
    /\ main_pc = "linter"
    /\ \E t \in LinterTokens :
          /\ Len(RStripNewline(iter_snapshot_lines[1])) + Len(t) <= MaxSnapshotLineLen
          /\ iter_snapshot_lines' = <<RStripNewline(iter_snapshot_lines[1]) \o t \o "\n">>
    /\ UNCHANGED <<iter_diff_lines, engine_vars, files_vars>>

NextLine == LinterEmit \/ Collect \/ WalkHunks \/ AdjustEntries \/ Return

SpecLine == InitLine /\ [][NextLine]_vars

-----------------------------------------------------------------------------
(* parse_git_diff_hunks on any sequence of diff lines, well-formed or not. *)

AnyDiffLines ==
    {"--- a/p.py\n", "+++ b/p.py\n", "--- a/q.py\n", "+++ b/q.py\n",
     "@@ -1,3 +1,4 @@\n", OneLineFileHeader, " c\n", "-r\n",
     "diff --git a/q.py b/q.py\n"}

InitParser ==
    /\ iter_snapshot_lines = <<>>
    /\ iter_diff_lines = <<>>
    /\ EngineStart
    /\ main_pc = "parser"
    /\ FilesIdle

\* the caller's iterator has one more line
AnyDiffEmit ==
    /\ pc = "input"
    /\ main_pc = "parser"
    /\ Len(iter_diff_lines) < MaxParserLines
    /\ \E l \in AnyDiffLines : iter_diff_lines' = Append(iter_diff_lines, l)
    /\ UNCHANGED <<iter_snapshot_lines, engine_vars, files_vars>>

\* list(parse_git_diff_hunks(iter_diff_lines))
ParseGitDiffHunks ==
    /\ pc = "input"
    /\ main_pc = "parser"
    /\ LET r == parse_git_diff_hunks(iter_diff_lines)
       IN  /\ hunks' = r.hunks
           /\ raised' = r.error
    /\ pc' = "parsed"
    /\ UNCHANGED <<iter_snapshot_lines, iter_diff_lines, snapshot_entries,
                   adjustment_table, result, files_vars>>

NextParser == AnyDiffEmit \/ ParseGitDiffHunks

SpecParser == InitParser /\ [][NextParser]_vars

-----------------------------------------------------------------------------
(* main, from the linter's output being in new-snapshot to the exit.  A    *)
(* file is <<>> (absent) or <<its content>>.                               *)

EXIT_CODE_NO_SNAPSHOT_FILE == 66

CalledProcessError == "subprocess.CalledProcessError"

RECURSIVE Concat(_)
Concat(lines) == IF Len(lines) = 0 THEN "" ELSE lines[1] \o Concat(Tail(lines))

\* the snapshots a previous run saved; the empty one is of a linter that
\* printed nothing
SavedSnapshots ==
    {<<Concat(lines)>> : lines \in {l \in SnapshotInputs : l[1] = EntryLine("p.py", 1, ": e")}}
    \cup {<<"">>}

\* what the linter printed in this run
LinterOutputs ==
    {<<EntryLine("p.py", 1, ": e") \o Summary>>,
     <<EntryLine("p.py", 2, ": e") \o Summary>>,
     <<Summary>>,
     <<"">>}

EngineIdle ==
    /\ iter_snapshot_lines = <<>>
    /\ iter_diff_lines = <<>>
    /\ pc = "idle"
    /\ snapshot_entries = NoEntries
    /\ adjustment_table = EmptyMap
    /\ hunks = <<>>
    /\ raised = ""
    /\ result = <<>>

\* main is called; a previous run may have left a snapshot (taken at c0,
\* and then new-snapshot holds that run's output) and a commit file
InitMain ==
    /\ EngineIdle
    /\ main_pc = "start"
    /\ snapshot_file \in SavedSnapshots \cup {NoFile}
    /\ commit_file \in {NoFile, <<"c0">>}
    /\ new_snapshot_file = snapshot_file
    /\ head \in {"c0", "c1"}
    /\ before = <<>>
    /\ exit_status = <<>>
    /\ processes = <<>>
    /\ snapshot_commit = IF snapshot_file = NoFile THEN "" ELSE "c0"
    /\ LinterIdle

Started(name) == <<name, "start">>

Exited(name) == <<name, "exit">>

\* subprocess.Popen(linter_command, ...); open(new_snapshot_path, "w")
LinterStart ==
    /\ main_pc = "start"
    /\ processes' = Append(processes, Started("linter"))
    /\ new_snapshot_file' = <<"">>
    /\ main_pc' = "linting"
    /\ linter_pc' = "running"
    /\ UNCHANGED <<iter_snapshot_lines, iter_diff_lines, engine_vars, snapshot_file,
                   commit_file, head, linter_writes, stdout_pipe, stderr_pipe, before,
                   exit_status, snapshot_commit>>

\* a variant that goes on without waiting for the linter to exit
ReadLinterOutputWithoutWaiting ==
    /\ main_pc = "linting"
    /\ new_snapshot_file' \in LinterOutputs
    /\ main_pc' = "linted"
    /\ UNCHANGED <<iter_snapshot_lines, iter_diff_lines, engine_vars, snapshot_file,
                   commit_file, head, linter_vars, before, exit_status, processes,
                   snapshot_commit>>

\* the read loop copies the linter's output to new-snapshot up to the end of
\* the stream; the with block waits for the linter to exit.  The whole loop
\* in one step, for a linter that prints its output and exits.
ReadLinterOutput ==
    /\ main_pc = "linting"
    /\ new_snapshot_file' \in LinterOutputs
    /\ processes' = Append(processes, Exited("linter"))
    /\ main_pc' = "linted"
    /\ linter_pc' = "exited"
    /\ UNCHANGED <<iter_snapshot_lines, iter_diff_lines, engine_vars, snapshot_file,
                   commit_file, head, linter_writes, stdout_pipe, stderr_pipe, before,
                   exit_status, snapshot_commit>>

\* if not os.path.exists(snapshot_path): copy new-snapshot, exit 66
NoSnapshotFile ==
    /\ main_pc = "linted"
    /\ snapshot_file = NoFile
    /\ snapshot_file' = new_snapshot_file
    /\ snapshot_commit' = head
    /\ exit_status' = <<EXIT_CODE_NO_SNAPSHOT_FILE>>
    /\ main_pc' = "exited"
    /\ UNCHANGED <<iter_snapshot_lines, iter_diff_lines, engine_vars, commit_file,
                   new_snapshot_file, head, linter_vars, before, processes>>

\* adjust_line_numbers_in_snapshot is called: snapshot_dir.get_current_commit(),
\* the return when there is no commit file, else the diff command is started
GetCurrentCommit ==
    /\ main_pc = "linted"
    /\ snapshot_file # NoFile
    /\ before' = <<snapshot_file, commit_file>>
    /\ main_pc' = IF commit_file = NoFile THEN "reconciled" ELSE "git diff"
    /\ processes' = IF commit_file = NoFile THEN processes
                    ELSE Append(processes, Started("git diff"))
    /\ UNCHANGED <<iter_snapshot_lines, iter_diff_lines, engine_vars, snapshot_file,
                   commit_file, new_snapshot_file, head, linter_vars, exit_status,
                   snapshot_commit>>

\* a variant in which a failing diff command counts as "no prior commit"
GitDiffFailsAsNoCommit ==
    /\ main_pc = "git diff"
    /\ processes' = Append(processes, Exited("git diff"))
    /\ main_pc' = "reconciled"
    /\ UNCHANGED <<iter_snapshot_lines, iter_diff_lines, engine_vars, snapshot_file,
                   commit_file, new_snapshot_file, head, linter_vars, before, exit_status,
                   snapshot_commit>>

\* subprocess.check_output raises: the diff command exited with a failure
GitDiffFails ==
    /\ main_pc = "git diff"
    /\ raised' = CalledProcessError
    /\ exit_status' = <<1>>
    /\ processes' = Append(processes, Exited("git diff"))
    /\ main_pc' = "adjust raised"
    /\ UNCHANGED <<iter_snapshot_lines, iter_diff_lines, pc, snapshot_entries,
                   adjustment_table, hunks, result, snapshot_file, commit_file,
                   new_snapshot_file, head, linter_vars, before, snapshot_commit>>

\* a variant that opens the snapshot for writing before the adjustment
ReadSnapshotAndTruncate ==
    /\ main_pc = "git diff"
    /\ CompleteDiff(iter_diff_lines)
    /\ iter_snapshot_lines' = ReadLines(snapshot_file[1])
    /\ snapshot_file' = <<"">>
    /\ processes' = Append(processes, Exited("git diff"))
    /\ pc' = "input"
    /\ main_pc' = "adjusting"
    /\ UNCHANGED <<iter_diff_lines, snapshot_entries, adjustment_table, hunks, raised,
                   result, commit_file, new_snapshot_file, head, linter_vars, before, exit_status,
                   snapshot_commit>>

\* the diff command exited with success; snapshot_lines = f.readlines(), and
\* adjust_line_numbers is called
ReadSnapshot ==
    /\ main_pc = "git diff"
    /\ CompleteDiff(iter_diff_lines)
    /\ iter_snapshot_lines' = ReadLines(snapshot_file[1])
    /\ processes' = Append(processes, Exited("git diff"))
    /\ pc' = "input"
    /\ main_pc' = "adjusting"
    /\ UNCHANGED <<iter_diff_lines, snapshot_entries, adjustment_table, hunks, raised,
                   result, snapshot_file, commit_file, new_snapshot_file, head, linter_vars, before,
                   exit_status, snapshot_commit>>

\* adjust_line_numbers raised: the exception leaves main
AdjustRaises ==
    /\ main_pc = "adjusting"
    /\ pc = "raised"
    /\ exit_status' = <<1>>
    /\ main_pc' = "adjust raised"
    /\ UNCHANGED <<iter_snapshot_lines, iter_diff_lines, engine_vars, snapshot_file,
                   commit_file, new_snapshot_file, head, linter_vars, before, processes,
                   snapshot_commit>>

\* with open(snapshot_path, "w") as f:
\*     f.writelines("\n".join(adjusted_snapshot_lines) + "\n")
\* the diff applied was from the commit file's revision to HEAD
WriteSnapshot ==
    /\ main_pc = "adjusting"
    /\ pc = "returned"
    /\ snapshot_file' = <<JoinLines(result) \o "\n">>
    /\ snapshot_commit' = IF commit_file = <<snapshot_commit>> THEN head ELSE "mixed"
    /\ main_pc' = "reconciled"
    /\ UNCHANGED <<iter_snapshot_lines, iter_diff_lines, engine_vars, commit_file,
                   new_snapshot_file, head, linter_vars, before, exit_status, processes>>

\* a variant that starts git rev-parse and does not wait for it
SaveCurrentCommitWithoutWaiting ==
    /\ main_pc = "reconciled"
    /\ commit_file' = <<head>>
    /\ processes' = Append(processes, Started("git rev-parse"))
    /\ main_pc' = "saved"
    /\ UNCHANGED <<iter_snapshot_lines, iter_diff_lines, engine_vars, snapshot_file,
                   new_snapshot_file, head, linter_vars, before, exit_status,
                   snapshot_commit>>

\* save_current_commit: git rev-parse HEAD, then the commit file is written
SaveCurrentCommit ==
    /\ main_pc = "reconciled"
    /\ commit_file' = <<head>>
    /\ processes' = processes \o <<Started("git rev-parse"), Exited("git rev-parse")>>
    /\ main_pc' = "saved"
    /\ UNCHANGED <<iter_snapshot_lines, iter_diff_lines, engine_vars, snapshot_file,
                   new_snapshot_file, head, linter_vars, before, exit_status, snapshot_commit>>

\* save_current_commit: git rev-parse HEAD exited with a failure
RevParseFails ==
    /\ main_pc = "reconciled"
    /\ raised' = CalledProcessError
    /\ exit_status' = <<1>>
    /\ processes' = processes \o <<Started("git rev-parse"), Exited("git rev-parse")>>
    /\ main_pc' = "save raised"
    /\ UNCHANGED <<iter_snapshot_lines, iter_diff_lines, pc, snapshot_entries,
                   adjustment_table, hunks, result, snapshot_file, commit_file,
                   new_snapshot_file, head, linter_vars, before, snapshot_commit>>

\* the length of a longest common subsequence of a[i..] and b[j..]: the lines
\* "diff -u" prints neither with "+" nor with "-"
RECURSIVE CommonLines(_, _, _, _)
CommonLines(a, i, b, j) ==
    IF i > Len(a) \/ j > Len(b) THEN 0
    ELSE IF a[i] = b[j] THEN 1 + CommonLines(a, i + 1, b, j + 1)
    ELSE LET x == CommonLines(a, i + 1, b, j)
             y == CommonLines(a, i, b, j + 1)
         IN  IF x >= y THEN x ELSE y

new_errors_found ==
    LET old == ReadLines(snapshot_file[1])
        new == ReadLines(new_snapshot_file[1])
    IN  CommonLines(old, 1, new, 1) < Len(new)

some_errors_removed ==
    LET old == ReadLines(snapshot_file[1])
        new == ReadLines(new_snapshot_file[1])
    IN  CommonLines(old, 1, new, 1) < Len(old)

\* a variant that saves the new snapshot whenever an error was removed
CompareSnapshotsSavingAlways ==
    /\ main_pc = "saved"
    /\ exit_status' = IF new_errors_found THEN <<1>> ELSE <<0>>
    /\ snapshot_file' = IF some_errors_removed THEN new_snapshot_file ELSE snapshot_file
    /\ snapshot_commit' = IF some_errors_removed \/ ~new_errors_found
                          THEN head ELSE snapshot_commit
    /\ processes' = processes \o <<Started("diff"), Exited("diff")>>
    /\ main_pc' = "exited"
    /\ UNCHANGED <<iter_snapshot_lines, iter_diff_lines, engine_vars, commit_file,
                   new_snapshot_file, head, linter_vars, before>>

\* diff -u snapshot new-snapshot: exit 1 on a "+" line, else save the new
\* snapshot if there is a "-" line
CompareSnapshots ==
    /\ main_pc = "saved"
    /\ exit_status' = IF new_errors_found THEN <<1>> ELSE <<0>>
    /\ snapshot_file' = IF ~new_errors_found /\ some_errors_removed
                        THEN new_snapshot_file ELSE snapshot_file
    \* with no "+" line the snapshot is, or now becomes, this run's output
    /\ snapshot_commit' = IF ~new_errors_found THEN head ELSE snapshot_commit
    /\ processes' = processes \o <<Started("diff"), Exited("diff")>>
    /\ main_pc' = "exited"
    /\ UNCHANGED <<iter_snapshot_lines, iter_diff_lines, engine_vars, commit_file,
                   new_snapshot_file, head, linter_vars, before>>

NextMain ==
    \/ LinterStart \/ ReadLinterOutput
    \/ NoSnapshotFile \/ GetCurrentCommit \/ GitDiffEmit \/ GitDiffFails
    \/ ReadSnapshot \/ Collect \/ WalkHunks \/ AdjustEntries \/ Return
    \/ AdjustRaises \/ WriteSnapshot \/ SaveCurrentCommit \/ RevParseFails
    \/ CompareSnapshots

SpecMain == InitMain /\ [][NextMain]_vars

-----------------------------------------------------------------------------
(* Runs of main one after the other in one repository, from no snapshot    *)
(* and no commit file, with commits made between the runs.                 *)

MaxCommits == 2

RevisionName(n) == "c" \o ToString(n)

InitRuns ==
    /\ EngineIdle
    /\ main_pc = "start"
    /\ snapshot_file = NoFile
    /\ commit_file = NoFile
    /\ new_snapshot_file = NoFile
    /\ head = RevisionName(0)
    /\ before = <<>>
    /\ exit_status = <<>>
    /\ processes = <<>>
    /\ snapshot_commit = ""
    /\ LinterIdle

\* git commit after a run that ended with an exit status of main's own:
\* HEAD is the next revision
Commit ==
    /\ main_pc = "exited"
    /\ \E n \in 0..(MaxCommits - 1) :
           head = RevisionName(n) /\ head' = RevisionName(n + 1)
    /\ UNCHANGED <<iter_snapshot_lines, iter_diff_lines, engine_vars, main_pc,
                   snapshot_file, commit_file, new_snapshot_file, before,
                   exit_status, processes, snapshot_commit, linter_vars>>

\* the command is run again after such a run: a new process, the files as
\* the last run left them
NextRun ==
    /\ main_pc = "exited"
    /\ main_pc' = "start"
    /\ iter_snapshot_lines' = <<>>
    /\ iter_diff_lines' = <<>>
    /\ pc' = "idle"
    /\ snapshot_entries' = NoEntries
    /\ adjustment_table' = EmptyMap
    /\ hunks' = <<>>
    /\ raised' = ""
    /\ result' = <<>>
    /\ before' = <<>>
    /\ exit_status' = <<>>
    /\ processes' = <<>>
    /\ linter_pc' = "not started"
    /\ UNCHANGED <<snapshot_file, commit_file, new_snapshot_file, head, linter_writes,
                   stdout_pipe, stderr_pipe, snapshot_commit>>

NextRuns == NextMain \/ Commit \/ NextRun

SpecRuns == InitRuns /\ [][NextRuns]_vars

-----------------------------------------------------------------------------
(* The linter and main's read loop, block by block.  The linter writes to  *)
(* two pipes, stdout=PIPE and stderr=PIPE; a pipe holds PipeCapacity       *)
(* blocks, and a write to a full pipe blocks the writer; a read of an      *)
(* empty pipe blocks the reader until there is data or every writer has    *)
(* closed it.  The linter closes its pipes when it exits.                  *)

MaxLinterWrites == 5

PipeCapacity == 2

\* the blocks one read(4096) takes at most
ReadSize == 2

RECURSIVE SeqsUpTo(_, _)
SeqsUpTo(S, n) ==
    IF n = 0 THEN {<<>>}
    ELSE LET shorter == SeqsUpTo(S, n - 1)
         IN  shorter \cup {Append(q, x) : q \in shorter, x \in S}

\* what the linter is to write, block by block
LinterPrograms == SeqsUpTo({"stdout", "stderr"}, MaxLinterWrites)

RECURSIVE Blocks(_)
Blocks(n) == IF n = 0 THEN "" ELSE "o" \o Blocks(n - 1)

InitPipes ==
    /\ EngineIdle
    /\ main_pc = "start"
    /\ snapshot_file = NoFile
    /\ commit_file = NoFile
    /\ new_snapshot_file = NoFile
    /\ head = RevisionName(0)
    /\ before = <<>>
    /\ exit_status = <<>>
    /\ processes = <<>>
    /\ snapshot_commit = ""
    /\ linter_pc = "not started"
    /\ linter_writes \in LinterPrograms
    /\ stdout_pipe = 0
    /\ stderr_pipe = 0

\* the linter writes its next block, if the pipe has room for it
LinterWrite ==
    /\ linter_pc = "running"
    /\ linter_writes # <<>>
    /\ IF Head(linter_writes) = "stdout"
       THEN /\ stdout_pipe < PipeCapacity
            /\ stdout_pipe' = stdout_pipe + 1
            /\ UNCHANGED stderr_pipe
       ELSE /\ stderr_pipe < PipeCapacity
            /\ stderr_pipe' = stderr_pipe + 1
            /\ UNCHANGED stdout_pipe
    /\ linter_writes' = Tail(linter_writes)
    /\ UNCHANGED <<iter_snapshot_lines, iter_diff_lines, engine_vars, main_pc,
                   snapshot_file, commit_file, new_snapshot_file, head, before,
                   exit_status, processes, snapshot_commit, linter_pc>>

\* the linter has written everything and exits
LinterExit ==
    /\ linter_pc = "running"
    /\ linter_writes = <<>>
    /\ linter_pc' = "exited"
    /\ UNCHANGED <<iter_snapshot_lines, iter_diff_lines, engine_vars, main_pc,
                   snapshot_file, commit_file, new_snapshot_file, head, before,
                   exit_status, processes, snapshot_commit, linter_writes,
                   stdout_pipe, stderr_pipe>>

\* chunk = linter_proc.stdout.read(4096); f.write(chunk)
ReadChunk ==
    /\ main_pc = "linting"
    /\ stdout_pipe > 0
    /\ LET n == IF stdout_pipe < ReadSize THEN stdout_pipe ELSE ReadSize
       IN  /\ stdout_pipe' = stdout_pipe - n
           /\ new_snapshot_file' = <<new_snapshot_file[1] \o Blocks(n)>>
    /\ UNCHANGED <<iter_snapshot_lines, iter_diff_lines, engine_vars, main_pc,
                   snapshot_file, commit_file, head, before, exit_status, processes,
                   snapshot_commit, linter_pc, linter_writes, stderr_pipe>>

\* chunk is empty, the end of the stream: break, and the with blocks close
\* new-snapshot and the pipes and wait for the linter
ReadEndOfFile ==
    /\ main_pc = "linting"
    /\ stdout_pipe = 0
    /\ linter_pc = "exited"
    /\ stderr_pipe' = 0
    /\ processes' = Append(processes, Exited("linter"))
    /\ main_pc' = "linted"
    /\ UNCHANGED <<iter_snapshot_lines, iter_diff_lines, engine_vars, snapshot_file,
                   commit_file, new_snapshot_file, head, before, exit_status,
                   snapshot_commit, linter_pc, linter_writes, stdout_pipe>>

NextPipes == LinterStart \/ LinterWrite \/ LinterExit \/ ReadChunk \/ ReadEndOfFile

SpecPipes == InitPipes /\ [][NextPipes]_vars

-----------------------------------------------------------------------------
(* What a diff of the git grammar above says, read off its text by the     *)
(* unified-diff format: which old line of which file each body line is at. *)

AllHunkHeaders == HunkHeaders \cup {NewFileHunkHeader}

OldStartOf(header) ==
    CASE header = "@@ -1,3 +1,4 @@\n" -> 1
      [] header = OneLineFileHeader -> 1
      [] header = "@@ -3,2 +3,3 @@\n" -> 3
      [] header = NewFileHunkHeader -> 0

BodyAt(diff) == {i \in 1..Len(diff) : diff[i] \in BodyLines}

OldPathAt(diff, i) ==
    IF diff[Max({j \in 1..i : diff[j] \in OldFileLines})] = "--- a/p.py\n"
    THEN "p.py" ELSE "/dev/null"

OldLineAt(diff, i) ==
    LET h == Max({j \in 1..i : diff[j] \in AllHunkHeaders})
    IN  OldStartOf(diff[h])
          + Cardinality({j \in (h + 1)..(i - 1) : Char(diff[j], 1) # "+"})

AddedAt(diff, path) ==
    {i \in BodyAt(diff) : Char(diff[i], 1) = "+" /\ OldPathAt(diff, i) = path}

RemovedAt(diff, path) ==
    {i \in BodyAt(diff) : Char(diff[i], 1) = "-" /\ OldPathAt(diff, i) = path}

OnlyTouches(diff, path) == \A i \in BodyAt(diff) : OldPathAt(diff, i) = path

\* the old file of a hunk that starts at line 1 with count 1 has one line
OldFileHasLine(diff, L) ==
    (\E i \in 1..Len(diff) : diff[i] = OneLineFileHeader) => L <= 1

\* where old line L of the file is in the new file
ShiftedLine(diff, path, L) ==
    L + Cardinality({i \in AddedAt(diff, path) : OldLineAt(diff, i) <= L})
      - Cardinality({i \in RemovedAt(diff, path) : OldLineAt(diff, i) < L})

LineRemoved(diff, path, L) ==
    \E i \in RemovedAt(diff, path) : OldLineAt(diff, i) = L

CallEnded == pc \in {"returned", "raised"}

Stripped(lines) == [i \in 1..Len(lines) |-> RStripNewline(lines[i])]

-----------------------------------------------------------------------------
(* C1: pure insertion.  A snapshot with one entry at (p.py, L) and a diff  *)
(* of p.py whose body has k added lines, all above old line L, and         *)
(* otherwise context lines only: adjust_line_numbers outputs the entry     *)
(* with line number L + k and its suffix unchanged.                        *)
C1_PureInsertion ==
    \A L \in 1..MaxLine :
        ( /\ CallEnded
          /\ iter_snapshot_lines = <<EntryLine("p.py", L, ": e"), Summary>>
          /\ CompleteDiff(iter_diff_lines)
          /\ OnlyTouches(iter_diff_lines, "p.py")
          /\ OldFileHasLine(iter_diff_lines, L)
          /\ RemovedAt(iter_diff_lines, "p.py") = {}
          /\ \A i \in AddedAt(iter_diff_lines, "p.py") :
                 OldLineAt(iter_diff_lines, i) <= L )
        => /\ pc = "returned"
           /\ Len(result) >= 1
           /\ result[1] = "p.py:"
                \o IntToStr(L + Cardinality(AddedAt(iter_diff_lines, "p.py")))
                \o ": e"

(* C2: pure deletion.  A snapshot with one entry at (p.py, L) and a diff   *)
(* of p.py that removes k old lines, all below line number L, and          *)
(* otherwise has context lines only: the entry is output with line number  *)
(* L - k and its suffix unchanged.                                         *)
C2_PureDeletion ==
    \A L \in 1..MaxLine :
        ( /\ pc = "returned"
          /\ iter_snapshot_lines = <<EntryLine("p.py", L, ": e"), Summary>>
          /\ CompleteDiff(iter_diff_lines)
          /\ OnlyTouches(iter_diff_lines, "p.py")
          /\ OldFileHasLine(iter_diff_lines, L)
          /\ AddedAt(iter_diff_lines, "p.py") = {}
          /\ \A i \in RemovedAt(iter_diff_lines, "p.py") :
                 OldLineAt(iter_diff_lines, i) < L )
        => /\ Len(result) >= 1
           /\ result[1] = "p.py:"
                \o IntToStr(L - Cardinality(RemovedAt(iter_diff_lines, "p.py")))
                \o ": e"

\* the snapshots of p.py whose entries have pairwise distinct lines, as the
\* <<line number, suffix>> of each entry
DistinctSnapshots ==
    {<<<<L, ": e">>>> : L \in 1..MaxLine}
    \cup {<<<<L[1], ": e">>, <<L[2], ": f">>>> :
            L \in {x \in (1..MaxLine) \X (1..MaxLine) : x[1] < x[2]}}

SnapshotOf(d) ==
    IF Len(d) = 1 THEN <<EntryLine("p.py", d[1][1], d[1][2]), Summary>>
    ELSE [i \in 1..Len(d) |-> EntryLine("p.py", d[i][1], d[i][2])]

\* what reconciling that snapshot with the diff is to give
ReconciledSnapshot(d, diff) ==
    LET kept == SelectSeq(d, LAMBDA e : ~LineRemoved(diff, "p.py", e[1]))
        shifted == [i \in 1..Len(kept) |->
                       "p.py:" \o IntToStr(ShiftedLine(diff, "p.py", kept[i][1]))
                          \o kept[i][2]]
    IN  IF Len(d) = 1 THEN shifted \o <<RStripNewline(Summary)>> ELSE shifted

(* C3: anchor deletion.  In a snapshot with pairwise distinct (path, line) *)
(* keys, an entry anchored at an old line the diff removes is not in the   *)
(* output, and every other entry of the file whose line is not removed is  *)
(* output with its line number shifted by the diff's cumulative offset.    *)
C3_AnchorDeletion ==
    \A d \in DistinctSnapshots :
        ( /\ pc = "returned"
          /\ iter_snapshot_lines = SnapshotOf(d)
          /\ CompleteDiff(iter_diff_lines)
          /\ OnlyTouches(iter_diff_lines, "p.py")
          /\ \A i \in 1..Len(d) : OldFileHasLine(iter_diff_lines, d[i][1])
          /\ \E i \in 1..Len(d) : LineRemoved(iter_diff_lines, "p.py", d[i][1]) )
        => result = ReconciledSnapshot(d, iter_diff_lines)

\* a line with no ":<digits>" after a first character
IsOpaqueText(s) ==
    ~\E j \in 2..(Len(s) - 1) : Char(s, j) = ":" /\ Char(s, j + 1) \in Digits

LinePath(s) ==
    IF StartsWith(s, "p.py:") THEN "p.py"
    ELSE IF StartsWith(s, "q.py:") THEN "q.py"
    ELSE ""

\* the files of the snapshot no "--- " header of the diff names
UntouchedPaths(diff) ==
    {"p.py", "q.py"}
      \ {OldPathAt(diff, i) : i \in {j \in 1..Len(diff) : diff[j] \in OldFileLines}}

(* C5: untouched files.  For a diff that only creates files other than     *)
(* the snapshot's, reconciliation does not fail because of them, and every *)
(* snapshot entry of a file that is the old path of no hunk is output with *)
(* the same line number and suffix, in the same relative position.         *)
C5_UntouchedFiles ==
    ( /\ CallEnded
      /\ CompleteDiff(iter_diff_lines)
      /\ OnlyTouches(iter_diff_lines, "/dev/null") )
    => /\ pc = "returned"
       /\ SelectSeq(result,
                    LAMBDA s : LinePath(s) \in UntouchedPaths(iter_diff_lines))
            = SelectSeq(Stripped(iter_snapshot_lines),
                        LAMBDA s : LinePath(s) \in UntouchedPaths(iter_diff_lines))

-----------------------------------------------------------------------------
(* What the hunks the parser yielded say: the old line each payload item   *)
(* is at, from the hunk's initial line number and the items before it.     *)

HunkItems ==
    {x \in (1..Len(hunks)) \X (1..MaxDiffLines + 1) : x[2] <= Len(hunks[x[1]].diffs)}

ItemOldLine(x) ==
    hunks[x[1]].initial_line_number
      + Cardinality({j \in 1..(x[2] - 1) : hunks[x[1]].diffs[j].line_type # "+"})

ItemsOf(path, line_type) ==
    {x \in HunkItems : /\ hunks[x[1]].path_minus = path
                       /\ hunks[x[1]].diffs[x[2]].line_type = line_type}

\* the paths with an offset table
TablePaths == {hunks[x[1]].path_minus : x \in HunkItems}

cumulative_offset(path, old_line) ==
    Cardinality({x \in ItemsOf(path, "+") : ItemOldLine(x) <= old_line})
      - Cardinality({x \in ItemsOf(path, "-") : ItemOldLine(x) <= old_line})

RemovedByHunks(path, old_line) ==
    \E x \in ItemsOf(path, "-") : ItemOldLine(x) = old_line

\* the snapshot lines of the inputs as what the linter printed:
\* <<path, line number, suffix>> of a diagnostic, <<>> of any other line
Diagnostic(line) ==
    LET shapes == {x \in {"p.py", "q.py"} \X (1..MaxLine) \X {": e", ": f"} :
                      line = EntryLine(x[1], x[2], x[3])}
    IN  IF shapes = {} THEN <<>> ELSE CHOOSE x \in shapes : TRUE

\* the diagnostics that are to survive, in order, each with its new line number
Relocated(lines) ==
    LET diag == [i \in 1..Len(lines) |-> Diagnostic(lines[i])]
        kept == SelectSeq(diag, LAMBDA x : x = <<>> \/ ~RemovedByHunks(x[1], x[2]))
    IN  [i \in 1..Len(kept) |->
            IF kept[i] = <<>> \/ kept[i][1] \notin TablePaths THEN <<>>
            ELSE <<kept[i][1] \o ":"
                     \o IntToStr(kept[i][2] + cumulative_offset(kept[i][1], kept[i][2]))
                     \o kept[i][3]>>]

(* C7: every surviving entry is relocated.  After the hunks are consumed,  *)
(* every entry whose path has an offset table and whose line no hunk       *)
(* removes is output with new_line = old_line + cumulative_offset(path,    *)
(* old_line), and the entries on a removed line are all dropped, also when *)
(* several entries share one path and line number.                         *)
C7_EverySurvivorRelocated ==
    pc = "returned"
    => LET want == Relocated(iter_snapshot_lines)
       IN  /\ Len(result) = Len(want)
           /\ \A i \in 1..Len(want) : want[i] # <<>> => result[i] = want[i][1]

\* the same, for the snapshots whose entries have pairwise distinct keys
DistinctKeys ==
    \A i, j \in 1..Len(iter_snapshot_lines) :
        (i # j /\ Diagnostic(iter_snapshot_lines[i]) # <<>>
               /\ Diagnostic(iter_snapshot_lines[j]) # <<>>)
        => <<Diagnostic(iter_snapshot_lines[i])[1], Diagnostic(iter_snapshot_lines[i])[2]>>
             # <<Diagnostic(iter_snapshot_lines[j])[1], Diagnostic(iter_snapshot_lines[j])[2]>>

-----------------------------------------------------------------------------
(* C6: no-op round trip.  Reconciling a snapshot line against an empty     *)
(* diff outputs it byte for byte, without its trailing newline, whatever   *)
(* the spelling of its path and of its line-number digits.                 *)
C6_NoOpRoundTrip ==
    (pc = "returned" /\ iter_diff_lines = <<>> /\ Len(iter_snapshot_lines) = 1)
    => result = <<RStripNewline(iter_snapshot_lines[1])>>

\* the line P:L: e, and the line P:L:C: e with a column
Located(P, L) == P \o ":" \o L \o ": e\n"

LocatedAtColumn(P, L, C) == P \o ":" \o L \o ":" \o C \o ": e\n"

(* C8: parsing keeps the diagnostic's line as the key and the column in    *)
(* the suffix.  A line P:L: msg parses to Entry(P, L, ": msg"); a line     *)
(* P:L:C: msg parses to an entry with path P and line number L whose       *)
(* suffix begins with ":C"; a line with no ":<digit>" in it is opaque.     *)
C8_LineIsKeyColumnInSuffix ==
    (pc = "collected" /\ main_pc = "linter")
    => LET line == iter_snapshot_lines[1]
           parsed == snapshot_entries.lines[1]
       IN  /\ \A P \in PathSpellings, L \in LineNumberSpellings :
                 /\ line = Located(P, L)
                    => parsed = SnapshotEntry(PurePath(P), DigitsValue(L), ": e")
                 /\ \A C \in LineNumberSpellings :
                       line = LocatedAtColumn(P, L, C)
                       => /\ parsed.kind = "entry"
                          /\ parsed.path = PurePath(P)
                          /\ parsed.line_number = DigitsValue(L)
                          /\ StartsWith(parsed.other_contents, ":" \o C)
           /\ re_snapshot_line_candidates(RStripNewline(line)) = {}
              => parsed = StrLine(RStripNewline(line))

-----------------------------------------------------------------------------
(* C9: no partial rewrite on failure.  From the call of                    *)
(* adjust_line_numbers_in_snapshot until adjust_line_numbers has returned, *)
(* and whenever the reconciliation failed (the diff command failed, or     *)
(* adjust_line_numbers raised), the snapshot file and the commit file are  *)
(* what they were at the call.                                             *)
C9_NoPartialRewrite ==
    main_pc \in {"git diff", "adjusting", "adjust raised"}
    => /\ snapshot_file = before[1]
       /\ commit_file = before[2]

\* adjust_line_numbers raised on a snapshot the previous run saved
C9_Witness ==
    /\ main_pc = "adjust raised"
    /\ pc = "raised"
    /\ snapshot_file \in SavedSnapshots

-----------------------------------------------------------------------------
(* The file sections of a diff: from a "--- " line to the line before the  *)
(* next one.                                                               *)

SectionStarts(diff) == {i \in 1..Len(diff) : StartsWith(diff[i], "--- ")}

SectionEnd(diff, i) ==
    LET later == {j \in SectionStarts(diff) : j > i}
    IN  IF later = {} THEN Len(diff)
        ELSE CHOOSE j \in later : \A k \in later : j <= k

SectionLacksHeader(diff, i) ==
    \/ \A j \in i..SectionEnd(diff, i) : ~StartsWith(diff[j], "+++ ")
    \/ \A j \in i..SectionEnd(diff, i) : ~StartsWith(diff[j], "@@ ")

(* C10: structural errors are detected for every pending hunk.  In a diff  *)
(* of sections of different files, if a section has no "+++ " line or no   *)
(* "@@ " line when its hunk is flushed, parse_git_diff_hunks raises a      *)
(* structural error.                                                       *)
C10_EveryPendingHunkChecked ==
    ( /\ pc = "parsed"
      /\ Len(iter_diff_lines) > 0
      /\ StartsWith(iter_diff_lines[1], "--- ")
      /\ \A i, j \in SectionStarts(iter_diff_lines) :
            i # j => iter_diff_lines[i] # iter_diff_lines[j]
      /\ \E i \in SectionStarts(iter_diff_lines) :
            SectionLacksHeader(iter_diff_lines, i) )
    => raised \in {MissingMinus, MissingPlus, MissingAt}

-----------------------------------------------------------------------------
(* What a unified diff says, read off its lines: the kind of each line,    *)
(* the old start a hunk header names, the path a file header names.        *)

LineKind(line) ==
    IF StartsWith(line, "--- ") THEN "---"
    ELSE IF StartsWith(line, "+++ ") THEN "+++"
    ELSE IF StartsWith(line, "@@ ") THEN "@@"
    ELSE IF Len(line) > 0 /\ Char(line, 1) \in {" ", "+", "-"} THEN "body"
    ELSE "metadata"

\* n of "@@ -n[,c] +m[,d] @@"
HeaderOldStart(line) == DigitsValue(SubSeq(line, 5, DigitRunEnd(line, 5)))

\* p of "--- a/p" or "+++ b/p"
HeaderPath(line) == SubSeq(RStripNewline(line), 7, Len(RStripNewline(line)))

(* C11: hunk header parsing.  In a file section, a header                  *)
(* "@@ -n[,c] +m[,d] @@" does not raise, also when the old count is        *)
(* omitted, and the initial line number of every hunk is the n of a header *)
(* of the diff.                                                            *)
C11_HunkHeaderParsing ==
    ( /\ pc = "parsed"
      /\ Len(iter_diff_lines) >= 3
      /\ LineKind(iter_diff_lines[1]) = "---"
      /\ LineKind(iter_diff_lines[2]) = "+++"
      /\ LineKind(iter_diff_lines[3]) = "@@" )
    => /\ raised # BadInt
       /\ \A k \in 1..Len(hunks) :
             \E i \in 1..Len(iter_diff_lines) :
                /\ LineKind(iter_diff_lines[i]) = "@@"
                /\ hunks[k].initial_line_number = HeaderOldStart(iter_diff_lines[i])

\* each file section is a "--- " line, a "+++ " line, then one or more
\* headers each followed by a non-empty body; metadata lines may be anywhere
RECURSIVE WellFormedFrom(_, _, _)
WellFormedFrom(diff, i, at) ==
    IF i > Len(diff) THEN at = "body"
    ELSE LET kind == LineKind(diff[i])
         IN  IF kind = "metadata" THEN WellFormedFrom(diff, i + 1, at)
             ELSE /\ <<at, kind>> \in {<<"start", "---">>, <<"---", "+++">>,
                                       <<"+++", "@@">>, <<"@@", "body">>,
                                       <<"body", "body">>, <<"body", "@@">>,
                                       <<"body", "---">>}
                  /\ WellFormedFrom(diff, i + 1, kind)

WellFormed(diff) == WellFormedFrom(diff, 1, "start")

LastBefore(diff, i, kind) ==
    LET S == {j \in 1..i : LineKind(diff[j]) = kind}
    IN  CHOOSE j \in S : \A k \in S : k <= j

\* the body lines of the hunk whose header is line h
BodyOf(diff, h) ==
    {i \in (h + 1)..Len(diff) :
        /\ LineKind(diff[i]) = "body"
        /\ \A j \in (h + 1)..i : LineKind(diff[j]) \in {"body", "metadata"}}

RECURSIVE TagsOf(_, _)
TagsOf(diff, S) ==
    IF S = {} THEN <<>>
    ELSE LET i == CHOOSE j \in S : \A k \in S : j <= k
             l == RStripNewline(diff[i])
         IN  <<IF Char(l, 1) = " " THEN ContextLine
               ELSE DiffLine(Char(l, 1), SubSeq(l, 2, Len(l)))>>
               \o TagsOf(diff, S \ {i})

HunkOfHeader(diff, h) ==
    GitDiffHunk(HeaderPath(diff[LastBefore(diff, h, "---")]),
                HeaderPath(diff[LastBefore(diff, h, "+++")]),
                HeaderOldStart(diff[h]),
                TagsOf(diff, BodyOf(diff, h)))

RECURSIVE HunksOfHeaders(_, _)
HunksOfHeaders(diff, S) ==
    IF S = {} THEN <<>>
    ELSE LET h == CHOOSE j \in S : \A k \in S : j <= k
         IN  <<HunkOfHeader(diff, h)>> \o HunksOfHeaders(diff, S \ {h})

(* C12: hunk sequence correctness.  For a well-formed diff,                *)
(* parse_git_diff_hunks yields one hunk per "@@ " header, in order, with   *)
(* the paths of the enclosing section without "a/" or "b/", the header's   *)
(* old start, and the tags of the body lines; metadata lines contribute    *)
(* nothing.                                                                *)
C12_HunkSequence ==
    (pc = "parsed" /\ WellFormed(iter_diff_lines))
    => /\ raised = ""
       /\ hunks = HunksOfHeaders(iter_diff_lines,
                     {i \in 1..Len(iter_diff_lines) :
                         LineKind(iter_diff_lines[i]) = "@@"})

-----------------------------------------------------------------------------
(* What the text diff of two files reports: an added line when the new     *)
(* lines are not a subsequence of the old ones, a removed line when the    *)
(* old lines are not a subsequence of the new ones.                        *)

RECURSIVE IsSubsequence(_, _)
IsSubsequence(a, b) ==
    IF Len(a) = 0 THEN TRUE
    ELSE IF Len(b) = 0 THEN FALSE
    ELSE IF a[1] = b[1] THEN IsSubsequence(Tail(a), Tail(b))
    ELSE IsSubsequence(a, Tail(b))

AddedLineReported(old_file, new_file) ==
    ~IsSubsequence(ReadLines(new_file[1]), ReadLines(old_file[1]))

RemovedLineReported(old_file, new_file) ==
    ~IsSubsequence(ReadLines(old_file[1]), ReadLines(new_file[1]))

RunEnded == main_pc \in {"exited", "adjust raised", "save raised"}

(* C13: exit-code contract of one run of main in which the version-control *)
(* commands succeed.  With no snapshot file the linter output is copied to *)
(* the snapshot and the run exits with 66; otherwise the run reaches the   *)
(* text diff and exits with 1 if the diff of the reconciled snapshot and   *)
(* the linter output has an added line, and with 0 if it has none.         *)
C13_ExitCodeContract ==
    (RunEnded /\ raised # CalledProcessError)
    => IF before = <<>>
       THEN /\ exit_status = <<EXIT_CODE_NO_SNAPSHOT_FILE>>
            /\ snapshot_file = new_snapshot_file
       ELSE /\ main_pc = "exited"
            /\ exit_status = IF AddedLineReported(snapshot_file, new_snapshot_file)
                             THEN <<1>> ELSE <<0>>

(* C14: snapshot replacement policy.  In a run where a snapshot exists,    *)
(* the text diff step replaces the snapshot by the new linter output if    *)
(* and only if the diff reports a removed line and no added line, and no   *)
(* other step but the reconciliation's write changes the snapshot.         *)
C14_ReplacementPolicy ==
    [][ /\ (main_pc = "saved" /\ main_pc' = "exited")
           => snapshot_file' =
                 IF /\ RemovedLineReported(snapshot_file, new_snapshot_file)
                    /\ ~AddedLineReported(snapshot_file, new_snapshot_file)
                 THEN new_snapshot_file ELSE snapshot_file
        /\ (snapshot_file # NoFile /\ snapshot_file' # snapshot_file)
           => main_pc \in {"adjusting", "saved"} ]_vars

\* no reconciliation, and the snapshot was replaced by the new output
C14_Witness ==
    /\ main_pc = "exited"
    /\ before # <<>>
    /\ before[2] = NoFile
    /\ snapshot_file # before[1]
    /\ snapshot_file = new_snapshot_file
    /\ exit_status = <<0>>

-----------------------------------------------------------------------------
Happened(event) == \E i \in 1..Len(processes) : processes[i] = event

HappenedBefore(event, j) == \E i \in 1..(j - 1) : processes[i] = event

(* C15, as stated: the version-control diff has finished before the linter *)
(* command is started.                                                     *)
C15_GitDiffBeforeLinter ==
    \A j \in 1..Len(processes) :
        processes[j] = Exited("git diff")
        => ~HappenedBefore(Started("linter"), j)

(* C15, amended: the linter command is started first and has exited        *)
(* before any other process is started; in a run where a commit file       *)
(* exists, the version-control diff is then started and has exited before  *)
(* the text diff is started.                                               *)
C15_LinterThenGitDiffThenDiff ==
    \A j \in 1..Len(processes) :
        /\ processes[j][2] = "start" /\ processes[j][1] # "linter"
           => HappenedBefore(Exited("linter"), j)
        /\ (processes[j] = Started("diff") /\ before[2] # NoFile)
           => HappenedBefore(Exited("git diff"), j)

\* a run with a commit file in which the text diff ran
C15_Witness ==
    /\ main_pc = "exited"
    /\ before # <<>>
    /\ before[2] # NoFile
    /\ Happened(Exited("git diff"))
    /\ Happened(Exited("diff"))

(* C16: an absent marker skips reconciliation.  With a snapshot and no     *)
(* commit file the version-control diff is not started and the snapshot is *)
(* not rewritten before the text diff; the diff is started and             *)
(* adjust_line_numbers called only with a commit file, and then the run    *)
(* goes on only after adjust_line_numbers returned; a failing diff command *)
(* ends the run with a failure, the files as they were.                    *)
C16_AbsentMarkerSkips ==
    /\ (before # <<>> /\ before[2] = NoFile)
       => /\ ~Happened(Started("git diff"))
          /\ pc = "idle"
          /\ main_pc \in {"reconciled", "saved", "save raised"}
             => snapshot_file = before[1]
    /\ Happened(Started("git diff")) => (before # <<>> /\ before[2] # NoFile)
    /\ ( /\ before # <<>>
         /\ before[2] # NoFile
         /\ main_pc \in {"reconciled", "saved", "save raised", "exited"} )
       => pc = "returned"
    /\ (main_pc = "adjust raised" /\ raised = CalledProcessError)
       => /\ exit_status = <<1>>
          /\ snapshot_file = before[1]
          /\ commit_file = before[2]
          /\ ~Happened(Started("diff"))

\* a run with a snapshot and no commit file, after save_current_commit
C16_Witness ==
    /\ main_pc = "saved"
    /\ before # <<>>
    /\ before[2] = NoFile
    /\ commit_file = <<head>>

-----------------------------------------------------------------------------
\* the line is the diagnostic of that path and suffix at some line number
SameButLineNumber(line, path, suffix) ==
    \E n \in 0..(MaxLine + MaxDiffLines) :
        line = path \o ":" \o IntToStr(n) \o suffix

\* the snapshot lines but the diagnostics anchored at a line the diff removes
KeptLines(lines, diff) ==
    SelectSeq(lines, LAMBDA s : \/ Diagnostic(s) = <<>>
                                \/ ~LineRemoved(diff, Diagnostic(s)[1], Diagnostic(s)[2]))

(* C17: output shape.  Whenever adjust_line_numbers returns, its output is *)
(* the input line sequence without the entries anchored at a line the diff *)
(* removes: as many lines, in the same order, every opaque line as it was  *)
(* and every kept entry with its path and suffix, whatever its line number.*)
C17_OutputShape ==
    (pc = "returned" /\ CompleteDiff(iter_diff_lines))
    => LET kept == KeptLines(iter_snapshot_lines, iter_diff_lines)
       IN  /\ Len(result) = Len(kept)
           /\ \A i \in 1..Len(kept) :
                  IF Diagnostic(kept[i]) = <<>>
                  THEN result[i] = RStripNewline(kept[i])
                  ELSE SameButLineNumber(result[i], Diagnostic(kept[i])[1],
                                         Diagnostic(kept[i])[3])

(* C18: general relocation.  For a diff as git prints it and a snapshot    *)
(* with pairwise distinct (path, line) keys, adjust_line_numbers returns,  *)
(* and every entry at (p, L) whose old line L the diff does not remove is  *)
(* output with the position old line L has in the new file: L plus the     *)
(* added lines of p at old-line positions up to L, minus the removed old   *)
(* lines of p before L.                                                    *)
C18_GeneralRelocation ==
    (CallEnded /\ CompleteDiff(iter_diff_lines) /\ DistinctKeys)
    => /\ pc = "returned"
       /\ \A k \in 1..Len(iter_snapshot_lines) :
              LET e == Diagnostic(iter_snapshot_lines[k])
              IN  (e # <<>> /\ ~LineRemoved(iter_diff_lines, e[1], e[2]))
                  => \E i \in 1..Len(result) :
                         result[i] = e[1] \o ":"
                            \o IntToStr(ShiftedLine(iter_diff_lines, e[1], e[2]))
                            \o e[3]

(* C20: offsets are recorded only at valid positions.  For every hunk the  *)
(* parser yields of a diff as git prints it, the hunk of a created file    *)
(* with old start 0 included, each payload item is walked at an old line   *)
(* number of at least 1, the line number add_offset_of is called with, and *)
(* the walk ends without an IndexError.                                    *)
C20_OffsetsAtValidPositions ==
    (CallEnded /\ CompleteDiff(iter_diff_lines))
    => /\ \A x \in HunkItems : ItemOldLine(x) >= 1
       /\ raised # IndexError

-----------------------------------------------------------------------------
\* the file holds a located diagnostic
HasDiagnostic(file) ==
    \E i \in 1..Len(ReadLines(file[1])) : Diagnostic(ReadLines(file[1])[i]) # <<>>

(* C19: marker and snapshot are consistent across runs.  From no snapshot  *)
(* and no commit file, through runs and commits: when a run reconciles,    *)
(* the commit file it diffs from names the revision the snapshot's line    *)
(* numbers are of, and at the end of a run that leaves a snapshot with     *)
(* diagnostics and a commit file, the commit file names that revision.     *)
C19_MarkerNamesSnapshotRevision ==
    ( /\ main_pc \in {"git diff", "exited"}
      /\ snapshot_file # NoFile
      /\ HasDiagnostic(snapshot_file)
      /\ commit_file # NoFile )
    => commit_file = <<snapshot_commit>>

-----------------------------------------------------------------------------
\* the old paths the "--- " file lines of the git grammar name
OldPaths == {"p.py", "/dev/null"}

(* C21: body lines are classified by their first character only.  For a    *)
(* diff as git prints it on which adjust_line_numbers returns, every body  *)
(* line beginning with "-" is one removed item and every body line         *)
(* beginning with "+" one added item of a hunk of its file, whatever the   *)
(* rest of its text; no body line changes a path or flushes a hunk, so     *)
(* there is one hunk per "@@ " header and every hunk has its file's path.  *)
C21_BodyLinesByFirstCharacter ==
    (pc = "returned" /\ CompleteDiff(iter_diff_lines))
    => /\ Len(hunks) = Cardinality({i \in 1..Len(iter_diff_lines) :
                                       iter_diff_lines[i] \in AllHunkHeaders})
       /\ \A k \in 1..Len(hunks) : hunks[k].path_minus \in OldPaths
       /\ \A path \in OldPaths :
              /\ Cardinality(ItemsOf(path, "-"))
                   = Cardinality(RemovedAt(iter_diff_lines, path))
              /\ Cardinality(ItemsOf(path, "+"))
                   = Cardinality(AddedAt(iter_diff_lines, path))

(* C22: ignored lines have no effect.  For a diff stream that holds only   *)
(* lines the parser ignores (no "--- ", "+++ ", "@@ " or body line), empty *)
(* or not, parse_git_diff_hunks yields no hunk and raises no error.        *)
C22_IgnoredLinesNoEffect ==
    ( /\ pc = "parsed"
      /\ \A i \in 1..Len(iter_diff_lines) : LineKind(iter_diff_lines[i]) = "metadata" )
    => /\ hunks = <<>>
       /\ raised = ""

-----------------------------------------------------------------------------
(* C23: file-level no-op rewrite.  In a run with a commit file in which    *)
(* the version-control diff printed nothing, the snapshot file that        *)
(* adjust_line_numbers_in_snapshot has written is byte-identical to the    *)
(* one it read, for every snapshot content, the empty file included.       *)
C23_NoOpRewrite ==
    ( /\ main_pc = "reconciled"
      /\ before # <<>>
      /\ before[2] # NoFile
      /\ iter_diff_lines = <<>> )
    => snapshot_file = before[1]

-----------------------------------------------------------------------------
\* the linter is blocked in a write: the pipe of its next block is full
LinterBlocked ==
    /\ linter_pc = "running"
    /\ linter_writes # <<>>
    /\ IF Head(linter_writes) = "stdout" THEN stdout_pipe = PipeCapacity
       ELSE stderr_pipe = PipeCapacity

\* main is blocked in read(4096): no data in the stdout pipe, and the linter
\* has not closed it
MainBlocked ==
    /\ main_pc = "linting"
    /\ stdout_pipe = 0
    /\ linter_pc = "running"

(* C24: the linter read loop cannot deadlock.  For a linter that writes a  *)
(* finite amount of data to its stdout and stderr and then exits, there is *)
(* no state in which the linter is blocked writing to a full pipe while    *)
(* main is blocked reading the other pipe.                                 *)
C24_ReadLoopCannotDeadlock == ~(LinterBlocked /\ MainBlocked)

-----------------------------------------------------------------------------
\* the processes started and not exited after the first j events
AliveAfter(j) ==
    {name \in {processes[i][1] : i \in 1..j} :
        LET last == CHOOSE i \in 1..j :
                        /\ processes[i][1] = name
                        /\ \A k \in (i + 1)..j : processes[k][1] # name
        IN  processes[last][2] = "start"}

(* C25: at most one external process is alive at any time during a run,    *)
(* and once a version-control command or the text diff has been started    *)
(* the linter has exited and main is past the block that writes            *)
(* new-snapshot.                                                           *)
C25_OneProcessAtATime ==
    /\ \A j \in 1..Len(processes) : Cardinality(AliveAfter(j)) <= 1
    /\ (\E j \in 1..Len(processes) :
            processes[j][2] = "start" /\ processes[j][1] # "linter")
       => /\ linter_pc = "exited"
          /\ main_pc \notin {"start", "linting"}

\* a run in which all four processes ran
C25_Witness ==
    /\ main_pc = "exited"
    /\ Happened(Exited("linter"))
    /\ Happened(Exited("git diff"))
    /\ Happened(Exited("git rev-parse"))
    /\ Happened(Exited("diff"))
    /\ iter_diff_lines # <<>>

-----------------------------------------------------------------------------
\* the payload items of the hunks of a path that are at an old line number
ItemsAt(path, line_type, old_line) ==
    {x \in ItemsOf(path, line_type) : ItemOldLine(x) = old_line}

\* the last old line number an item of the path is at
LastOldLine(path) ==
    Max({ItemOldLine(x) : x \in {y \in HunkItems : hunks[y[1]].path_minus = path}})

(* C26: old-line cursor invariant.  After adjust_line_numbers has walked   *)
(* the hunks, the table of every path holds, at each old line number, +1   *)
(* for every added item and -1 for every removed item whose position is    *)
(* the hunk's initial line number plus the context and removed items       *)
(* before it, and nothing elsewhere: added items do not advance the        *)
(* cursor.  The entries deleted are the ones looked up at the removed      *)
(* items' old line numbers.                                                *)
C26_OldLineCursor ==
    pc \in {"walked", "adjusted", "returned"}
    => /\ DOMAIN adjustment_table = TablePaths
       /\ \A path \in DOMAIN adjustment_table :
              /\ Len(adjustment_table[path]) = LastOldLine(path)
              /\ \A n \in 1..Len(adjustment_table[path]) :
                     adjustment_table[path][n]
                       = Cardinality(ItemsAt(path, "+", n))
                           - Cardinality(ItemsAt(path, "-", n))
       /\ pc = "walked"
          => \A k \in DOMAIN snapshot_entries.index :
                 ~RemovedByHunks(k[1], k[2])

\* a hunk with an added item followed by a removed one has been walked
C26_Witness ==
    /\ pc = "walked"
    /\ \E x \in ItemsOf("p.py", "+") :
           \E y \in ItemsOf("p.py", "-") : y[1] = x[1] /\ y[2] > x[2]
    /\ \E k \in DOMAIN CollectedSnapshotEntries(iter_snapshot_lines).index :
           RemovedByHunks(k[1], k[2])

-----------------------------------------------------------------------------
\* c(1) + ... + c(n) of the contributions c
RECURSIVE SumTo(_, _)
SumTo(c, n) == IF n <= 0 THEN 0 ELSE c[n] + SumTo(c, n - 1)

\* the line numbers a lookup is checked at: from below 1 to past every table
LookupLines == (0 - 1)..(MaxLine + MaxDiffLines + 1)

(* C27: accumulated offset lookup.  For every path whose table received    *)
(* contributions c(1..m), AccumulatedOffsets[n] is c(1) + ... + c(n) for   *)
(* 1 <= n <= m, c(1) + ... + c(m) for n > m, and 0 for n <= 0; it is the   *)
(* number of added minus the number of removed items at old lines up to n, *)
(* several at one line each counted.                                       *)
C27_AccumulatedOffsetLookup ==
    pc \in {"walked", "adjusted", "returned"}
    => \A path \in DOMAIN adjustment_table :
           LET c == adjustment_table[path]
               m == Len(c)
               offsets == lines_and_total_offsets(adjustment_table)[path]
           IN  \A n \in LookupLines :
                   LET got == AccumulatedOffsets_getitem(offsets, n)
                   IN  /\ got.ok
                       /\ got.value = IF n <= 0 THEN 0
                                      ELSE IF n <= m THEN SumTo(c, n)
                                      ELSE SumTo(c, m)
                       /\ n >= 1 => got.value = cumulative_offset(path, n)

\* two contributions at one line, and an entry looked up past the table's end
C27_Witness ==
    /\ pc = "returned"
    /\ \E path \in DOMAIN adjustment_table :
           /\ \E n \in 1..Len(adjustment_table[path]) : adjustment_table[path][n] >= 2
           /\ \E k \in DOMAIN CollectedSnapshotEntries(iter_snapshot_lines).index :
                  k[1] = path /\ k[2] > Len(adjustment_table[path])

=============================================================================
